---------------------------- MODULE Spec2Model ----------------------------
(***************************************************************************)
(* Model of the muloom_gpu Metal renderer plugin                           *)
(* (src/app/src-tauri/src/plugins/muloom_gpu.rs).                          *)
(*                                                                         *)
(* Two execution contexts are modelled: the host's event-dispatch context  *)
(* (plugin setup and the window-event callback) and the render thread      *)
(* spawned by start_renderer, which runs run_renderer.  They share the two *)
(* SeqCst atomics `running` and `window_resized`; the window's size is     *)
(* owned by the windowing toolkit and read through inner_size().           *)
(* The render thread is cut into one action per access to shared state     *)
(* (an atomic load/swap/store, a size query, a call into the surface);     *)
(* the code between two such accesses touches thread-local state only.     *)
(***************************************************************************)
EXTENDS Naturals, Integers, Sequences, FiniteSets, TLC

(* ------------------------------ bounds --------------------------------- *)

\* Window dimensions range over 0..MaxDim (0 is a minimised/degenerate window).
MaxDim == 2
\* Number of completed ticks after which the loop starts no new tick.
MaxTicks == 3
\* Longest advertised format list.
MaxFormats == 3
\* Longest advertised present-mode list.
MaxPresentModes == 2
\* Longest advertised alpha-mode list.
MaxAlphaModes == 2

(* ------------------------------ values --------------------------------- *)

\* wgpu::TextureFormat values that matter to pick_surface_format; Rgba8Unorm
\* stands for any format that is neither of the two BGRA8 ones.
TextureFormat ==
  {"Rgba8Unorm", "Bgra8UnormSrgb", "Bgra8Unorm"}

PresentMode ==
  {"AutoNoVsync", "Immediate", "Mailbox", "Fifo"}

\* wgpu::CompositeAlphaMode values; PreMultiplied stands for any mode that is
\* neither Opaque nor Auto.
CompositeAlphaMode ==
  {"Opaque", "Auto", "PreMultiplied"}

\* wgpu::SurfaceError, plus "Ok" for a successfully acquired frame.
AcquireOutcome ==
  {"Ok", "Timeout", "Lost", "Outdated", "OutOfMemory"}

Dims == 0..MaxDim

\* A physical size <<width, height>> as reported by the window.
WindowSizes == Dims \X Dims

\* Result of window.inner_size(): <<>> is Err(_), <<size>> is Ok(size).
QueryErr == <<>>

SeqsUpTo(S, n) ==
  UNION {[1..k -> S] : k \in 0..n}

Max(a, b) ==
  IF a >= b THEN a ELSE b

\* The SurfaceConfiguration variable before line 136 has run, and the surface
\* before its first configure.
NoConfig ==
  [format |-> "None", present_mode |-> "None", alpha_mode |-> "None",
   width |-> 0, height |-> 0]

\* No resize_surface call has been made yet.
NoCall ==
  [made |-> FALSE, failed |-> FALSE, size |-> <<0, 0>>, force |-> FALSE,
   configured |-> FALSE]

(* ------------------------------ state ---------------------------------- *)

VARIABLES
  winSize,           \* the window's current physical size (toolkit state)
  capabilities,      \* what surface.get_capabilities(&adapter) advertises
  setup,             \* plugin setup closure: "pending" or "done"
  listening,         \* the on_window_event callback is registered
  running,           \* Arc<AtomicBool> running
  window_resized,    \* Arc<AtomicBool> window_resized
  pc,                \* position of the render thread
  config,            \* run_renderer's SurfaceConfiguration
  surface,           \* the configuration last applied by surface.configure
  frame_index,       \* run_renderer's frame counter: a u64, as four 16-bit limbs
  last_frame_time,   \* run_renderer's elapsed-time origin: the ordinal of the
                     \* Instant::now() reading it holds, 0 before the first
  ticks,             \* history: ticks that ran to their tail (bounds the run)
  diagnostics,       \* number of eprintln! messages emitted
  oomSeen,           \* history: an acquisition has returned OutOfMemory
  stopStored,        \* history: a Destroyed/CloseRequested event was delivered
  presentsAfterStop, \* history: frame.present() calls made after stopStored
  tickClean,         \* history: since this tick began, no size change, no failed query
  tickDegenerate,    \* history: the size read at the top of this tick had a 0 dimension
  lastCall,          \* history: the latest resize_surface call
  tickOutcome        \* history: what this tick's acquisition returned

env == <<winSize, capabilities>>
host == <<setup, listening>>
flags == <<running, window_resized>>
pacing == <<frame_index, last_frame_time, ticks>>
render == <<pc, config, surface, pacing>>
history == <<oomSeen, stopStored, presentsAfterStop, tickClean, tickDegenerate,
             lastCall, tickOutcome>>
vars == <<env, host, flags, render, diagnostics, history>>


(* -------------------------- pure functions ----------------------------- *)

\* Index of the first element of seq that lies in S, 0 when there is none:
\* Iterator::find over seq.iter().copied() with a matches! predicate.
FindIndex(seq, S) ==
  IF \E i \in 1..Len(seq) : seq[i] \in S
  THEN CHOOSE i \in 1..Len(seq) :
         /\ seq[i] \in S
         /\ \A j \in 1..(i - 1) : seq[j] \notin S
  ELSE 0

\* pick_surface_format with the `formats.get(0)` fallback dropped.
pick_surface_format_no_first(formats) ==
  LET i == FindIndex(formats, {"Bgra8UnormSrgb", "Bgra8Unorm"})
  IN  IF i # 0 THEN formats[i] ELSE "Bgra8Unorm"

\* fn pick_surface_format(formats: &[TextureFormat]) -> TextureFormat
pick_surface_format(formats) ==
  LET i == FindIndex(formats, {"Bgra8UnormSrgb", "Bgra8Unorm"})
  IN  IF i # 0 THEN formats[i]
      ELSE IF Len(formats) > 0 THEN formats[1]
      ELSE "Bgra8Unorm"

\* The present_mode computation of run_renderer (lines 119-127).
pick_present_mode(present_modes) ==
  IF \E i \in 1..Len(present_modes) : present_modes[i] = "AutoNoVsync"
  THEN "AutoNoVsync"
  ELSE LET i == FindIndex(present_modes, {"Immediate", "Mailbox"})
       IN  IF i # 0 THEN present_modes[i] ELSE "Fifo"

\* The alpha_mode computation of run_renderer (lines 129-134).
pick_alpha_mode(alpha_modes) ==
  LET i == FindIndex(alpha_modes, {"Opaque", "Auto"})
  IN  IF i # 0 THEN alpha_modes[i] ELSE "Auto"

\* resize_surface with the `force || width != .. || height != ..` test dropped:
\* the surface is configured on every call.
resize_surface_always(query, cfg, force) ==
  LET size    == IF query = QueryErr THEN <<cfg.width, cfg.height>> ELSE query[1]
      width   == Max(size[1], 1)
      height  == Max(size[2], 1)
      applied == [cfg EXCEPT !.width = width, !.height = height]
  IN  [config |-> applied, configure |-> <<applied>>, size |-> <<width, height>>]

\* resize_surface with the .max(1) clamps dropped.
resize_surface_unclamped(query, cfg, force) ==
  LET size   == IF query = QueryErr THEN <<cfg.width, cfg.height>> ELSE query[1]
      width  == size[1]
      height == size[2]
  IN  IF force \/ width # cfg.width \/ height # cfg.height
      THEN LET applied == [cfg EXCEPT !.width = width, !.height = height]
           IN  [config |-> applied, configure |-> <<applied>>,
                size |-> <<width, height>>]
      ELSE [config |-> cfg, configure |-> <<>>, size |-> <<width, height>>]

\* resize_surface falling back to PhysicalSize::default() (0x0) instead of
\* the config's size when the query fails.
resize_surface_default_on_err(query, cfg, force) ==
  LET size   == IF query = QueryErr THEN <<0, 0>> ELSE query[1]
      width  == Max(size[1], 1)
      height == Max(size[2], 1)
  IN  IF force \/ width # cfg.width \/ height # cfg.height
      THEN LET applied == [cfg EXCEPT !.width = width, !.height = height]
           IN  [config |-> applied, configure |-> <<applied>>,
                size |-> <<width, height>>]
      ELSE [config |-> cfg, configure |-> <<>>, size |-> <<width, height>>]

\* fn resize_surface(window, surface, device, config, force) -> Result<()>
\* query is the result of window.inner_size().  The result holds the config
\* as the call leaves it and the arguments of the surface.configure calls it
\* made (none or one).  The function always returns Ok(()).
resize_surface(query, cfg, force) ==
  LET size   == IF query = QueryErr THEN <<cfg.width, cfg.height>> ELSE query[1]
      width  == Max(size[1], 1)
      height == Max(size[2], 1)
  IN  IF force \/ width # cfg.width \/ height # cfg.height
      THEN LET applied == [cfg EXCEPT !.width = width, !.height = height]
           IN  [config |-> applied, configure |-> <<applied>>,
                size |-> <<width, height>>]
      ELSE [config |-> cfg, configure |-> <<>>, size |-> <<width, height>>]

\* A u64 is held as four limbs of 16 bits, least significant first.
LimbBase == 2^16

U64Limbs == 4

\* The u64 with value n, for 0 <= n < LimbBase.
U64(n) ==
  <<n>> \o [i \in 1..(U64Limbs - 1) |-> 0]

\* u64::MAX
U64Max ==
  [i \in 1..U64Limbs |-> LimbBase - 1]

\* Limb-wise addition of a carry; the carry out of the last limb is dropped.
RECURSIVE AddCarry(_, _)
AddCarry(limbs, carry) ==
  IF limbs = <<>> THEN <<>>
  ELSE LET sum == Head(limbs) + carry
       IN  <<sum % LimbBase>> \o AddCarry(Tail(limbs), sum \div LimbBase)

\* The counter stuck at u64::MAX instead of wrapping (saturating_add).
saturating_add(x, y) ==
  IF x = U64Max THEN x ELSE AddCarry(x, y)

\* u64::wrapping_add(x, y) for 0 <= y < LimbBase: (x + y) mod 2^64.
wrapping_add(x, y) ==
  AddCarry(x, y)

(* ------------------------------ initial state -------------------------- *)

\* What a surface typically advertises; the selection specification below
\* ranges over every advertisement within the bounds instead.
DefaultCapabilities ==
  [formats       |-> <<"Bgra8Unorm", "Bgra8UnormSrgb", "Rgba8Unorm">>,
   present_modes |-> <<"Fifo", "Immediate">>,
   alpha_modes   |-> <<"Opaque", "PreMultiplied">>]

AllCapabilities ==
  [formats       : SeqsUpTo(TextureFormat, MaxFormats),
   present_modes : SeqsUpTo(PresentMode, MaxPresentModes),
   alpha_modes   : SeqsUpTo(CompositeAlphaMode, MaxAlphaModes)]

InitHistory ==
  /\ oomSeen = FALSE
  /\ stopStored = FALSE
  /\ presentsAfterStop = 0
  /\ tickClean = FALSE
  /\ tickDegenerate = FALSE
  /\ lastCall = NoCall
  /\ tickOutcome = "None"

\* The plugin is built and its setup closure has not run yet.
Init ==
  /\ winSize = <<1, 1>>
  /\ capabilities = DefaultCapabilities
  /\ setup = "pending"
  /\ listening = FALSE
  /\ running = TRUE
  /\ window_resized = TRUE
  /\ pc = "unspawned"
  /\ config = NoConfig
  /\ surface = NoConfig
  /\ frame_index = U64(0)
  /\ last_frame_time = 0
  /\ ticks = 0
  /\ diagnostics = 0
  /\ InitHistory

(* ------------------- host side: setup and window events ---------------- *)

\* What the window lookup of start_renderer can find (lines 31-39): the
\* window labelled "main", else the first open window, else nothing.
WindowLookup ==
  {"main", "first", "none"}

\* init's setup closure calling metal::start_renderer (lines 6-14, 30-76):
\* no window -> Err, reported by eprintln!; otherwise the two flags are
\* created true, the callback is registered and the thread is spawned
\* (a failed spawn is an Err too).  Setup returns Ok(()) in every case.
start_renderer ==
  /\ setup = "pending"
  /\ setup' = "done"
  /\ \E window \in WindowLookup :
       IF window = "none"
       THEN /\ diagnostics' = diagnostics + 1
            /\ UNCHANGED <<listening, flags, pc>>
       ELSE /\ running' = TRUE
            /\ window_resized' = TRUE
            /\ listening' = TRUE
            /\ \E spawned \in BOOLEAN :
                 IF spawned
                 THEN pc' = "create_surface" /\ UNCHANGED diagnostics
                 ELSE diagnostics' = diagnostics + 1 /\ UNCHANGED pc
  /\ UNCHANGED <<env, config, surface, pacing, history>>

\* The Destroyed arm with the store forgotten.
OnDestroyed_NoStore ==
  /\ listening
  /\ stopStored' = TRUE
  /\ UNCHANGED <<env, host, flags, render, diagnostics, oomSeen, tickOutcome,
                 presentsAfterStop, tickClean, tickDegenerate, lastCall>>

\* WindowEvent::Destroyed arm (lines 48-50).
OnDestroyed ==
  /\ listening
  /\ running' = FALSE
  /\ stopStored' = TRUE
  /\ UNCHANGED <<env, host, window_resized, render, diagnostics, oomSeen, tickOutcome,
                 presentsAfterStop, tickClean, tickDegenerate, lastCall>>

\* WindowEvent::CloseRequested arm (lines 51-53).
OnCloseRequested ==
  /\ listening
  /\ running' = FALSE
  /\ stopStored' = TRUE
  /\ UNCHANGED <<env, host, window_resized, render, diagnostics, oomSeen, tickOutcome,
                 presentsAfterStop, tickClean, tickDegenerate, lastCall>>

\* The Resized arm storing true into the wrong flag.
OnResized_WrongFlag ==
  /\ listening
  /\ running' = TRUE
  /\ UNCHANGED <<env, host, window_resized, render, diagnostics, history>>

\* WindowEvent::Resized arm (lines 54-56).
OnResized ==
  /\ listening
  /\ window_resized' = TRUE
  /\ UNCHANGED <<env, host, running, render, diagnostics, history>>

\* WindowEvent::ScaleFactorChanged arm (lines 57-59).
OnScaleFactorChanged ==
  /\ listening
  /\ window_resized' = TRUE
  /\ UNCHANGED <<env, host, running, render, diagnostics, history>>

\* The toolkit changes the window's physical size; inner_size() reports the
\* new size from now on.  The Resized event is delivered separately.
WindowSizeChanges ==
  /\ \E s \in WindowSizes :
       /\ s # winSize
       /\ winSize' = s
  /\ tickClean' = FALSE
  /\ UNCHANGED <<capabilities, host, flags, render, diagnostics, oomSeen, tickOutcome,
                 stopStored, presentsAfterStop, tickDegenerate, lastCall>>

(* ------------------- render thread: run_renderer ----------------------- *)

\* The closure dropping the Err of run_renderer without a message.
ReturnErr_Silent ==
  /\ pc' = "failed"
  /\ UNCHANGED diagnostics

\* The closure of the spawned thread reports an Err of run_renderer with
\* eprintln! (lines 69-71).
ReturnErr ==
  /\ pc' = "failed"
  /\ diagnostics' = diagnostics + 1

\* SurfaceTargetUnsafe::from_window and create_surface_unsafe (lines 95-98).
CreateSurface ==
  /\ pc = "create_surface"
  /\ \E ok \in BOOLEAN :
       IF ok THEN pc' = "request_adapter" /\ UNCHANGED diagnostics
             ELSE ReturnErr
  /\ UNCHANGED <<env, host, flags, config, surface, pacing, history>>

\* instance.request_adapter (lines 100-105).
RequestAdapter ==
  /\ pc = "request_adapter"
  /\ \E ok \in BOOLEAN :
       IF ok THEN pc' = "request_device" /\ UNCHANGED diagnostics
             ELSE ReturnErr
  /\ UNCHANGED <<env, host, flags, config, surface, pacing, history>>

\* adapter.request_device (lines 107-115).
RequestDevice ==
  /\ pc = "request_device"
  /\ \E ok \in BOOLEAN :
       IF ok THEN pc' = "negotiate" /\ UNCHANGED diagnostics
             ELSE ReturnErr
  /\ UNCHANGED <<env, host, flags, config, surface, pacing, history>>

\* get_capabilities, the three selections and the initial 1x1
\* SurfaceConfiguration (lines 117-145).
Negotiate ==
  /\ pc = "negotiate"
  /\ config' = [format       |-> pick_surface_format(capabilities.formats),
                present_mode |-> pick_present_mode(capabilities.present_modes),
                alpha_mode   |-> pick_alpha_mode(capabilities.alpha_modes),
                width        |-> 1,
                height       |-> 1]
  /\ pc' = "initial_resize"
  /\ UNCHANGED <<env, host, flags, surface, pacing, diagnostics, history>>

\* The results inner_size() can give now.
SizeQueries ==
  {<<winSize>>, QueryErr}

\* One call resize_surface(&window, &surface, &device, &mut config, force)
\* whose size query returns `query`: its effect on config and on the surface,
\* and the record of the call.
CallResizeSurface(query, force) ==
  LET out == resize_surface(query, config, force)
  IN  /\ config' = out.config
      /\ surface' = IF out.configure = <<>> THEN surface
                    ELSE out.configure[Len(out.configure)]
      /\ lastCall' = [made       |-> TRUE,
                      failed     |-> query = QueryErr,
                      size       |-> out.size,
                      force      |-> force,
                      configured |-> out.configure # <<>>]
      /\ tickClean' = (tickClean /\ query # QueryErr)

\* resize_surface(.., true)? before the loop; frame_index = 0 and
\* last_frame_time = now (lines 147-150).
InitialResize ==
  /\ pc = "initial_resize"
  /\ \E query \in SizeQueries : CallResizeSurface(query, TRUE)
  /\ frame_index' = U64(0)
  /\ last_frame_time' = 1
  /\ UNCHANGED ticks
  /\ pc' = "loop"
  /\ UNCHANGED <<env, host, flags, diagnostics, oomSeen, tickOutcome, stopStored,
                 presentsAfterStop, tickDegenerate>>

\* The loop condition replaced by `loop`: the flag is never read.
LoopCheck_NoLoad ==
  /\ pc = "loop"
  /\ ticks < MaxTicks
  /\ pc' = "swap"
  /\ tickClean' = TRUE
  /\ tickDegenerate' = FALSE
  /\ UNCHANGED <<env, host, flags, config, surface, pacing, diagnostics,
                 oomSeen, tickOutcome, stopStored, presentsAfterStop, lastCall>>

\* while running.load(SeqCst) (line 152): a false flag leaves the loop and
\* run_renderer returns Ok(()) (line 226).
LoopCheck ==
  /\ pc = "loop"
  /\ IF running
     THEN /\ ticks < MaxTicks
          /\ pc' = "swap"
          /\ tickClean' = TRUE
          /\ tickDegenerate' = FALSE
     ELSE /\ pc' = "stopped"
          /\ UNCHANGED <<tickClean, tickDegenerate>>
  /\ UNCHANGED <<env, host, flags, config, surface, pacing, diagnostics,
                 oomSeen, tickOutcome, stopStored, presentsAfterStop, lastCall>>

\* window_resized.swap(false, SeqCst) (line 153).
SwapResized ==
  /\ pc = "swap"
  /\ window_resized' = FALSE
  /\ pc' = IF window_resized THEN "resize_event" ELSE "resize_poll"
  /\ UNCHANGED <<env, host, running, config, surface, pacing,
                 diagnostics, history>>

\* The zero-size test that follows the top-of-tick reconfigure (lines
\* 160-163): sleep 50 ms and `continue`, or go on to acquire a frame.
AfterTopResize(query) ==
  /\ tickDegenerate' = (query # QueryErr /\ (query[1][1] = 0 \/ query[1][2] = 0))
  /\ pc' = IF config'.width = 0 \/ config'.height = 0 THEN "loop" ELSE "acquire"
  /\ UNCHANGED <<env, host, flags, pacing, diagnostics, oomSeen, tickOutcome,
                 stopStored, presentsAfterStop>>

\* The event branch reconfiguring with force = true.
ResizeOnEvent_Forced ==
  /\ pc = "resize_event"
  /\ \E query \in SizeQueries :
       /\ CallResizeSurface(query, TRUE)
       /\ AfterTopResize(query)

\* The branch taken when the swap returned true (line 154).
ResizeOnEvent ==
  /\ pc = "resize_event"
  /\ \E query \in SizeQueries :
       /\ CallResizeSurface(query, FALSE)
       /\ AfterTopResize(query)

\* The else branch left empty: no poll when no event was flagged.
ResizeOnPoll_Skipped ==
  /\ pc = "resize_poll"
  /\ pc' = "acquire"
  /\ UNCHANGED <<env, host, flags, config, surface, pacing, diagnostics,
                 history>>

\* The branch taken when the swap returned false (line 157).
ResizeOnPoll ==
  /\ pc = "resize_poll"
  /\ \E query \in SizeQueries :
       /\ CallResizeSurface(query, FALSE)
       /\ AfterTopResize(query)

\* The OutOfMemory arm breaking out of the loop without the store.
Acquire_OomBreakOnly ==
  /\ pc = "acquire"
  /\ \E outcome \in AcquireOutcome :
       /\ pc' = CASE outcome = "Ok" -> "submit"
                  [] outcome = "Timeout" -> "advance"
                  [] outcome \in {"Lost", "Outdated"} -> "recover"
                  [] outcome = "OutOfMemory" -> "stopped"
       /\ oomSeen' = (oomSeen \/ outcome = "OutOfMemory")
       /\ tickOutcome' = outcome
  /\ UNCHANGED <<env, host, flags, config, surface, pacing,
                 diagnostics, stopStored, presentsAfterStop, tickClean,
                 tickDegenerate, lastCall>>

\* The OutOfMemory arm handled like Timeout: no store, no break.
Acquire_OomIgnored ==
  /\ pc = "acquire"
  /\ \E outcome \in AcquireOutcome :
       /\ pc' = CASE outcome = "Ok" -> "submit"
                  [] outcome \in {"Timeout", "OutOfMemory"} -> "advance"
                  [] outcome \in {"Lost", "Outdated"} -> "recover"
       /\ oomSeen' = (oomSeen \/ outcome = "OutOfMemory")
       /\ tickOutcome' = outcome
  /\ UNCHANGED <<env, host, flags, config, surface, pacing,
                 diagnostics, stopStored, presentsAfterStop, tickClean,
                 tickDegenerate, lastCall>>

\* match surface.get_current_texture() (lines 165-217).  Ok goes on to encode
\* the clear pass; Timeout falls out of the match; Lost and Outdated go to the
\* forced reconfigure; OutOfMemory stores running = false and breaks, so
\* run_renderer returns Ok(()).
Acquire ==
  /\ pc = "acquire"
  /\ \E outcome \in AcquireOutcome :
       /\ pc' = CASE outcome = "Ok" -> "submit"
                  [] outcome = "Timeout" -> "advance"
                  [] outcome \in {"Lost", "Outdated"} -> "recover"
                  [] outcome = "OutOfMemory" -> "stopped"
       /\ running' = IF outcome = "OutOfMemory" THEN FALSE ELSE running
       /\ oomSeen' = (oomSeen \/ outcome = "OutOfMemory")
       /\ tickOutcome' = outcome
  /\ UNCHANGED <<env, host, window_resized, config, surface, pacing,
                 diagnostics, stopStored, presentsAfterStop, tickClean,
                 tickDegenerate, lastCall>>

\* queue.submit(Some(encoder.finish())) (line 201).
Submit ==
  /\ pc = "submit"
  /\ pc' = "present"
  /\ UNCHANGED <<env, host, flags, config, surface, pacing, diagnostics,
                 history>>

\* frame.present() (line 202).
Present ==
  /\ pc = "present"
  /\ pc' = "advance"
  /\ presentsAfterStop' = IF stopStored THEN presentsAfterStop + 1
                          ELSE presentsAfterStop
  /\ UNCHANGED <<env, host, flags, config, surface, pacing, diagnostics,
                 oomSeen, tickOutcome, stopStored, tickClean, tickDegenerate, lastCall>>

\* The Lost and Outdated arms reconfiguring with force = false.
Recover_NotForced ==
  /\ pc = "recover"
  /\ \E query \in SizeQueries : CallResizeSurface(query, FALSE)
  /\ pc' = "advance"
  /\ UNCHANGED <<env, host, flags, pacing, diagnostics, oomSeen, tickOutcome,
                 stopStored, presentsAfterStop, tickDegenerate>>

\* The Lost and Outdated arms: resize_surface(.., true)? (lines 207-212).
Recover ==
  /\ pc = "recover"
  /\ \E query \in SizeQueries : CallResizeSurface(query, TRUE)
  /\ pc' = "advance"
  /\ UNCHANGED <<env, host, flags, pacing, diagnostics, oomSeen, tickOutcome,
                 stopStored, presentsAfterStop, tickDegenerate>>

\* The tail of a tick (lines 219-223): advance the counter, reset
\* last_frame_time, sleep 4 ms, back to the loop condition.
Advance ==
  /\ pc = "advance"
  /\ frame_index' = wrapping_add(frame_index, 1)
  /\ last_frame_time' = last_frame_time + 1
  /\ ticks' = ticks + 1
  /\ tickOutcome' = "None"
  /\ pc' = "loop"
  /\ UNCHANGED <<env, host, flags, config, surface, diagnostics, oomSeen,
                 stopStored, presentsAfterStop, tickClean, tickDegenerate,
                 lastCall>>

(* --------------------------- specifications ---------------------------- *)

WindowEvent ==
  \/ OnDestroyed
  \/ OnCloseRequested
  \/ OnResized
  \/ OnScaleFactorChanged

Startup ==
  \/ CreateSurface
  \/ RequestAdapter
  \/ RequestDevice
  \/ Negotiate
  \/ InitialResize

FrameLoop ==
  \/ LoopCheck
  \/ SwapResized
  \/ ResizeOnEvent
  \/ ResizeOnPoll
  \/ Acquire
  \/ Submit
  \/ Present
  \/ Recover
  \/ Advance

RenderThread ==
  Startup \/ FrameLoop

Next ==
  \/ start_renderer
  \/ WindowEvent
  \/ WindowSizeChanges
  \/ RenderThread

Spec ==
  Init /\ [][Next]_vars

\* The render thread is an OS thread: it keeps being scheduled, and every
\* call it makes (acquire, sleep) returns.
FairSpec ==
  Spec /\ WF_vars(RenderThread)

\* The negotiation alone, over every advertised capability triple within the
\* bounds: the device has been obtained and get_capabilities is next.
InitSelect ==
  /\ winSize = <<1, 1>>
  /\ capabilities \in AllCapabilities
  /\ setup = "done"
  /\ listening = TRUE
  /\ running = TRUE
  /\ window_resized = TRUE
  /\ pc = "negotiate"
  /\ config = NoConfig
  /\ surface = NoConfig
  /\ frame_index = U64(0)
  /\ last_frame_time = 0
  /\ ticks = 0
  /\ diagnostics = 0
  /\ InitHistory

NextSelect ==
  \/ Negotiate
  \/ InitialResize

SelectSpec ==
  InitSelect /\ [][NextSelect]_vars

\* The config the negotiation and the initial forced reconfigure leave for
\* DefaultCapabilities and a 1x1 window.
ConfigAfterStartup ==
  [format       |-> pick_surface_format(DefaultCapabilities.formats),
   present_mode |-> pick_present_mode(DefaultCapabilities.present_modes),
   alpha_mode   |-> pick_alpha_mode(DefaultCapabilities.alpha_modes),
   width        |-> 1,
   height       |-> 1]

\* Values of the frame counter from which a few ticks reach a limb carry or
\* the wrap at u64::MAX.
LateCounters ==
  {[U64(0) EXCEPT ![1] = LimbBase - 1],
   [U64Max EXCEPT ![1] = LimbBase - 2],
   U64Max}

\* The renderer at the top of its loop after so many ticks that the frame
\* counter holds one of LateCounters; last_frame_time and ticks count from
\* here.
InitLate ==
  /\ winSize = <<1, 1>>
  /\ capabilities = DefaultCapabilities
  /\ setup = "done"
  /\ listening = TRUE
  /\ running = TRUE
  /\ window_resized = FALSE
  /\ pc = "loop"
  /\ config = ConfigAfterStartup
  /\ surface = ConfigAfterStartup
  /\ frame_index \in LateCounters
  /\ last_frame_time = 1
  /\ ticks = 0
  /\ diagnostics = 0
  /\ oomSeen = FALSE
  /\ stopStored = FALSE
  /\ presentsAfterStop = 0
  /\ tickClean = TRUE
  /\ tickDegenerate = FALSE
  /\ lastCall = [made |-> TRUE, failed |-> FALSE, size |-> <<1, 1>>,
                 force |-> FALSE, configured |-> FALSE]
  /\ tickOutcome = "None"

\* The whole program, started either fresh or late in a long run.
WrapSpec ==
  (Init \/ InitLate) /\ [][Next]_vars

(* ------------------------------ properties ----------------------------- *)

\* Positions of the render thread inside the frame loop.
LoopPcs ==
  {"loop", "swap", "resize_event", "resize_poll", "acquire", "submit",
   "present", "recover", "advance"}

\* Positions from which the next step of the render thread is a call of
\* resize_surface.
ResizePcs ==
  {"initial_resize", "resize_event", "resize_poll", "recover"}

\* Positions at which the render thread has ended or never existed.
EndedPcs ==
  {"stopped", "failed", "unspawned"}

\* The step that begins a new tick.
TickBegins ==
  pc = "loop" /\ pc' = "swap"

ClampedSize(size) ==
  <<Max(1, size[1]), Max(1, size[2])>>

\* C1 (fatal halt): once an acquisition has returned OutOfMemory, `running`
\* reads false in every later state, the thread has left the loop, and no
\* later step acquires, submits or presents a frame.
FatalHalt ==
  /\ [](oomSeen => (~running /\ pc = "stopped"))
  /\ [][oomSeen => ~(Acquire \/ Submit \/ Present)]_vars

\* An acquisition returned OutOfMemory after at least one completed tick.
FatalHaltWitness ==
  oomSeen /\ pc = "stopped" /\ ticks >= 1

\* C2 as claimed: no frame is presented after a Destroyed or CloseRequested
\* event has stored running = false.
NoPresentAfterStop ==
  presentsAfterStop = 0

\* C2 as amended: after the store the render thread ends, no new tick begins,
\* and at most one frame is presented - the frame of the tick that had already
\* passed the `running` check.
StopAfterTickInFlight ==
  /\ [](presentsAfterStop <= 1)
  /\ [][stopStored => ~TickBegins]_vars
  /\ (stopStored ~> pc \in EndedPcs)

\* The loop stopped after presenting the frame that was in flight at the store.
StopAfterTickInFlightWitness ==
  stopStored /\ presentsAfterStop = 1 /\ pc = "stopped"

\* C3 (cooperative cancellation): with the render thread scheduled fairly,
\* whenever `running` is false while the thread is in the loop, the thread
\* eventually reaches Stopped, and no new tick begins while the flag is false.
CooperativeCancellation ==
  /\ ((~running /\ pc \in LoopPcs) ~> pc = "stopped")
  /\ [][~running => ~TickBegins]_vars

\* The flag was cleared by an event and the loop, having completed ticks,
\* has stopped without any out-of-memory exit.
CooperativeCancellationWitness ==
  ~running /\ ~oomSeen /\ pc = "stopped" /\ ticks >= 1

\* C4 (one-shot): `running` is created true by start_renderer, and once it is
\* false no step makes it true again.
RunningOneShot ==
  /\ [][(setup = "pending" /\ listening') => running']_vars
  /\ [][~running => ~running']_vars

\* Both kinds of writer have stored false: an event and the OutOfMemory arm.
RunningOneShotWitness ==
  ~running /\ stopStored /\ oomSeen

\* C5 (resize convergence): once the top-of-tick reconfigure of a tick has
\* run, if the window size has not changed since the tick began and no size
\* query of the tick failed, the config and the configuration applied to the
\* surface have width max(1, w) and height max(1, h) for the window size (w, h).
ResizeConvergence ==
  (tickClean /\ pc \notin {"swap", "resize_event", "resize_poll"})
    => /\ <<config.width, config.height>> = ClampedSize(winSize)
       /\ <<surface.width, surface.height>> = ClampedSize(winSize)

\* A tick that began after the window had taken a size other than the
\* initial 1x1 has completed.
ResizeConvergenceWitness ==
  /\ tickClean
  /\ pc = "loop"
  /\ ticks >= 1
  /\ winSize # <<1, 1>>
  /\ winSize[1] >= 1
  /\ winSize[2] >= 1

\* C6 (reconfigure idempotence): a resize_surface call configures the surface
\* only if it is forced or the clamped size differs from the config; and a
\* non-forced call whose size equals that of the call before it makes no
\* surface.configure call and leaves config and surface unchanged.
ReconfigureIdempotent ==
  [][(pc \in ResizePcs /\ pc' # pc) =>
       /\ lastCall'.configured =>
            (lastCall'.force \/ lastCall'.size # <<config.width, config.height>>)
       /\ (lastCall.made /\ ~lastCall'.force /\ lastCall'.size = lastCall.size) =>
            (~lastCall'.configured /\ config' = config /\ surface' = surface)
    ]_vars

\* The top-of-tick call of a later tick found the size unchanged and
\* configured nothing.
ReconfigureIdempotentWitness ==
  /\ pc = "acquire"
  /\ ticks >= 1
  /\ lastCall.made
  /\ ~lastCall.force
  /\ ~lastCall.configured

\* C7 (degenerate size) as claimed: in a tick whose top-of-tick size query
\* reported width 0 or height 0, get_current_texture is not called.
NoAcquireWhenDegenerate ==
  [][(pc = "acquire" /\ pc' # "acquire") => ~tickDegenerate]_vars

\* C8 (config size invariant): once created, the config has width >= 1 and
\* height >= 1, and the size last passed to surface.configure is the size
\* stored in the config.
ConfigSizeInvariant ==
  /\ config # NoConfig => (config.width >= 1 /\ config.height >= 1)
  /\ surface # NoConfig =>
       (surface.width = config.width /\ surface.height = config.height)

\* The top-of-tick call read a 0x0 window and the surface has been configured.
ConfigSizeInvariantWitness ==
  /\ pc = "acquire"
  /\ tickDegenerate
  /\ winSize = <<0, 0>>
  /\ surface # NoConfig

Contains(seq, x) ==
  \E i \in 1..Len(seq) : seq[i] = x

\* The format C9 states: Bgra8UnormSrgb if advertised, else Bgra8Unorm if
\* advertised, else the first format of the list.
PreferredFormat(formats) ==
  IF Contains(formats, "Bgra8UnormSrgb") THEN "Bgra8UnormSrgb"
  ELSE IF Contains(formats, "Bgra8Unorm") THEN "Bgra8Unorm"
  ELSE formats[1]

\* C9 (format selection) as claimed: for every non-empty advertised format
\* list, in any order, the selected format is PreferredFormat of the list.
FormatSelection ==
  (config # NoConfig /\ Len(capabilities.formats) > 0)
    => config.format = PreferredFormat(capabilities.formats)

\* The present mode C10 states: AutoNoVsync if advertised, else Immediate if
\* advertised, else Mailbox if advertised, else Fifo.
PreferredPresentMode(present_modes) ==
  IF Contains(present_modes, "AutoNoVsync") THEN "AutoNoVsync"
  ELSE IF Contains(present_modes, "Immediate") THEN "Immediate"
  ELSE IF Contains(present_modes, "Mailbox") THEN "Mailbox"
  ELSE "Fifo"

\* C10 (present-mode selection) as claimed: for every advertised present-mode
\* list the selected mode is PreferredPresentMode of the list.
PresentModeSelection ==
  config # NoConfig
    => config.present_mode = PreferredPresentMode(capabilities.present_modes)

\* C11 as claimed, on the non-empty advertised lists: each selected value is
\* a member of the list it was selected from.
SelectionInAdvertisedList ==
  (/\ config # NoConfig
   /\ Len(capabilities.formats) > 0
   /\ Len(capabilities.present_modes) > 0
   /\ Len(capabilities.alpha_modes) > 0)
    => /\ Contains(capabilities.formats, config.format)
       /\ Contains(capabilities.present_modes, config.present_mode)
       /\ Contains(capabilities.alpha_modes, config.alpha_mode)

\* C11 as amended: each selection yields a value for every advertised list;
\* the value is a member of the list, or it is the selection's fixed fallback
\* (Bgra8Unorm for an empty format list, Fifo when none of AutoNoVsync,
\* Immediate, Mailbox is advertised, Auto when neither Opaque nor Auto is).
SelectionTotal ==
  config # NoConfig =>
    /\ config.format \in TextureFormat
    /\ config.present_mode \in PresentMode
    /\ config.alpha_mode \in CompositeAlphaMode
    /\ IF Len(capabilities.formats) > 0
       THEN Contains(capabilities.formats, config.format)
       ELSE config.format = "Bgra8Unorm"
    /\ IF \E m \in {"AutoNoVsync", "Immediate", "Mailbox"} :
            Contains(capabilities.present_modes, m)
       THEN Contains(capabilities.present_modes, config.present_mode)
       ELSE config.present_mode = "Fifo"
    /\ IF \E m \in {"Opaque", "Auto"} : Contains(capabilities.alpha_modes, m)
       THEN Contains(capabilities.alpha_modes, config.alpha_mode)
       ELSE config.alpha_mode = "Auto"

\* A format list without a BGRA8 format gave its first format, while the
\* alpha list without Opaque and Auto gave the unadvertised fallback Auto.
SelectionTotalWitness ==
  /\ config # NoConfig
  /\ capabilities.formats = <<"Rgba8Unorm">>
  /\ config.format = "Rgba8Unorm"
  /\ capabilities.alpha_modes = <<"PreMultiplied">>
  /\ config.alpha_mode = "Auto"

\* C12 (out-of-memory reporting) as claimed: when the loop has ended on an
\* OutOfMemory acquisition, exactly one diagnostic message has been emitted.
OomReportedOnce ==
  (oomSeen /\ pc = "stopped") => diagnostics = 1

\* C13 (startup-fatal failures): when no window is found, no listener is
\* registered and no thread is spawned; when run_renderer fails, it fails from
\* surface, adapter or device creation, before any configure, and never runs
\* again; in both cases exactly one message has been emitted and setup is done.
StartupFatal ==
  /\ []((setup = "done" /\ ~listening)
          => (pc = "unspawned" /\ diagnostics = 1 /\ running /\ surface = NoConfig))
  /\ [](pc = "failed"
          => /\ setup = "done"
             /\ diagnostics = 1
             /\ config = NoConfig
             /\ surface = NoConfig
             /\ ~lastCall.made
             /\ tickOutcome = "None"
             /\ ticks = 0)
  /\ [][pc' = "failed" =>
          pc \in {"create_surface", "request_adapter", "request_device", "failed"}]_vars

\* run_renderer has failed during startup while the listener is registered
\* and has already received a close event.
StartupFatalWitness ==
  pc = "failed" /\ listening /\ stopStored /\ diagnostics = 1

\* C14 (timeout) as claimed: the steps of the render thread that handle a
\* Timeout acquisition, up to the next loop condition, leave the surface
\* config, the frame counter, the elapsed-time origin and `running` unchanged.
TimeoutNoStateChange ==
  [][(pc' # pc /\ (tickOutcome = "Timeout" \/ tickOutcome' = "Timeout")) =>
       /\ config' = config
       /\ surface' = surface
       /\ frame_index' = frame_index
       /\ last_frame_time' = last_frame_time
       /\ running' = running
    ]_vars

LostOrOutdated ==
  {"Lost", "Outdated"}

\* C15 (Lost/Outdated recovery): a tick whose acquisition returned Lost or
\* Outdated makes one forced resize_surface call, which configures the
\* surface, then runs its tail; it submits and presents nothing, reports
\* nothing and does not write `running`.
LostOutdatedRecovery ==
  /\ [](tickOutcome \in LostOrOutdated => pc \in {"recover", "advance"})
  /\ [][(pc = "recover" /\ pc' # pc) =>
          /\ tickOutcome \in LostOrOutdated
          /\ lastCall'.force
          /\ lastCall'.configured
          /\ surface' = config'
          /\ pc' = "advance"
          /\ diagnostics' = diagnostics
          /\ running' = running]_vars
  /\ [][(tickOutcome \in LostOrOutdated /\ pc = "advance" /\ pc' # pc) =>
          /\ pc' = "loop"
          /\ lastCall' = lastCall
          /\ surface' = surface
          /\ diagnostics' = diagnostics
          /\ running' = running]_vars

\* The forced reconfigure of a Lost/Outdated tick has configured the surface
\* in a later tick, where the top-of-tick call had already applied the size.
LostOutdatedRecoveryWitness ==
  /\ tickOutcome \in LostOrOutdated
  /\ pc = "advance"
  /\ ticks >= 1
  /\ lastCall.force
  /\ lastCall.configured

\* C16 (size-query failure): a resize_surface call whose size query fails
\* leaves the config's width and height unchanged; it configures the surface
\* exactly when forced, and then with that unchanged size; it reports nothing
\* and run_renderer does not fail.
QueryFailureFallback ==
  [][(pc \in ResizePcs /\ pc' # pc /\ lastCall'.failed) =>
       /\ config'.width = config.width
       /\ config'.height = config.height
       /\ lastCall'.configured = lastCall'.force
       /\ IF lastCall'.force
          THEN surface'.width = config.width /\ surface'.height = config.height
          ELSE surface' = surface
       /\ diagnostics' = diagnostics
       /\ pc' # "failed"
    ]_vars

\* A top-of-tick size query failed while the config held a size other than
\* the initial 1x1, and the tick went on.
QueryFailureFallbackWitness ==
  /\ pc = "acquire"
  /\ lastCall.failed
  /\ ~lastCall.force
  /\ <<config.width, config.height>> # <<1, 1>>

\* C17 (alpha-mode selection) as claimed: Opaque if the list contains Opaque,
\* otherwise Auto.
AlphaModeSelection ==
  config # NoConfig
    => config.alpha_mode =
         (IF Contains(capabilities.alpha_modes, "Opaque") THEN "Opaque" ELSE "Auto")

\* b = a + 1 modulo 2^64, limb by limb: the limbs below some position k are
\* all LimbBase - 1 in a and 0 in b, limb k is one larger in b, the limbs
\* above are equal; k past the last limb is the wrap from u64::MAX to 0.
IsSuccessor(a, b) ==
  \E k \in 1..(U64Limbs + 1) :
    /\ \A i \in 1..(k - 1) : a[i] = LimbBase - 1 /\ b[i] = 0
    /\ k <= U64Limbs =>
         /\ a[k] < LimbBase - 1
         /\ b[k] = a[k] + 1
         /\ \A i \in (k + 1)..U64Limbs : b[i] = a[i]

\* a < b as u64 values.
U64Less(a, b) ==
  \E k \in 1..U64Limbs :
    /\ a[k] < b[k]
    /\ \A i \in (k + 1)..U64Limbs : a[i] = b[i]

\* C18 (frame counter): the counter is 0 when the loop is entered; it changes
\* only in the tail of a tick; the tail of a tick whose acquisition succeeded
\* (which runs after the present) makes it the successor modulo 2^64 and
\* takes a new elapsed-time origin; no step decreases it except the wrap from
\* u64::MAX to 0; the OutOfMemory exit leaves it unchanged.
FrameCounter ==
  /\ [][(pc = "initial_resize" /\ pc' # pc) => frame_index' = U64(0)]_vars
  /\ [][frame_index' # frame_index => (pc = "advance" /\ pc' = "loop")]_vars
  /\ [][(pc = "advance" /\ pc' # pc /\ tickOutcome = "Ok") =>
          /\ IsSuccessor(frame_index, frame_index')
          /\ last_frame_time' > last_frame_time]_vars
  /\ [][\/ frame_index' = frame_index
        \/ U64Less(frame_index, frame_index')
        \/ (frame_index = U64Max /\ frame_index' = U64(0))]_vars
  /\ [][(pc' # pc /\ tickOutcome' = "OutOfMemory") =>
          frame_index' = frame_index]_vars

\* The tail of a tick has wrapped the counter from u64::MAX to 0.
FrameCounterWitness ==
  frame_index = U64(0) /\ ticks >= 1 /\ pc = "loop"

\* C19 (the resize flag does not steer the loop): the swap leaves the flag
\* false, and the step after it - whichever branch the swapped value chose -
\* is one non-forced resize_surface call determined by the size query and the
\* config alone, followed by the acquire.
ResizeFlagIrrelevant ==
  /\ [][(pc = "swap" /\ pc' # pc) =>
          (~window_resized' /\ pc' \in {"resize_event", "resize_poll"})]_vars
  /\ [][(pc \in {"resize_event", "resize_poll"} /\ pc' # pc) =>
          /\ lastCall'.made
          /\ ~lastCall'.force
          /\ lastCall'.size = (IF lastCall'.failed
                               THEN <<config.width, config.height>>
                               ELSE ClampedSize(winSize))
          /\ lastCall'.configured = (lastCall'.size # <<config.width, config.height>>)
          /\ <<config'.width, config'.height>> = lastCall'.size
          /\ surface' = (IF lastCall'.configured THEN config' ELSE surface)
          /\ pc' = "acquire"]_vars

\* The swap returned false although the window no longer has the configured
\* size: the poll branch is about to pick the change up.
ResizeFlagIrrelevantWitness ==
  /\ pc = "resize_poll"
  /\ ticks >= 1
  /\ ClampedSize(winSize) # <<config.width, config.height>>

\* C20 (loop exit): the render thread leaves the loop only to Stopped and
\* with `running` false; resize_surface never makes run_renderer fail; and
\* in Stopped nothing is configured, acquired, submitted or presented.
LoopExit ==
  /\ [][(pc \in LoopPcs /\ pc' \notin LoopPcs) =>
          (pc' = "stopped" /\ ~running')]_vars
  /\ [](pc = "failed" => ~lastCall.made)
  /\ [][pc = "stopped" =>
          /\ pc' = "stopped"
          /\ config' = config
          /\ surface' = surface
          /\ lastCall' = lastCall
          /\ tickOutcome' = tickOutcome
          /\ frame_index' = frame_index]_vars

\* The loop has stopped after a tick in which a size query had failed.
LoopExitWitness ==
  pc = "stopped" /\ ~running /\ lastCall.failed /\ ticks >= 1

=============================================================================
